---- MODULE Spec2Model ----
(***************************************************************************)
(* Model of code_from_cluster_assignment.py: the loaders of the gene       *)
(* expression matrix and of the clinical table, the ER status encoder, the *)
(* sample matcher and the per-gene standard deviation.                     *)
(*                                                                         *)
(* Tables are modelled as pandas keeps them: an ordered list of column     *)
(* names and an ordered list of rows, each row carrying its index label.   *)
(* Text cells are strings, a missing text cell is the string "NaN" (the    *)
(* readers parse that text as missing), a missing number is NaN.  An index *)
(* label is tagged with its type: [int |-> 3] is a positional label,       *)
(* [str |-> "a"] a text label, so that the two never compare equal.        *)
(* A call's outcome is [raised |-> "", value |-> v] when it returns v and   *)
(* [raised |-> "KeyError"] (or "ValueError") when it raises.               *)
(***************************************************************************)
EXTENDS Integers, Sequences, FiniteSets, TLC

VARIABLES
    pc,                \* position of the calling script
    raw_expression,    \* the tab-separated gene-by-sample matrix, as read
    raw_clinical,      \* the spreadsheet, as read with header=1
    genes_expression,  \* the caller's expression table (samples in rows)
    estrogen_receptor, \* the caller's clinical table
    refiltered,        \* outcome of filtering estrogen_receptor once more
    encoded,           \* outcome of encode_estrogen_receptor
    matched,           \* outcome of create_data_structures_with_matching_sample
    std,               \* outcome of get_std
    passed             \* the arguments as they were when the last call was made

vars == <<pc, raw_expression, raw_clinical, genes_expression, estrogen_receptor,
          refiltered, encoded, matched, std, passed>>

----------------------------------------------------------------------------
(* Bounds of the explored inputs. *)

MaxClinicalRows == 2
MaxSamples == 2
MaxGenes == 2
MaxMatchRows == 2

----------------------------------------------------------------------------
(* Outcomes of a call, index labels, missing values. *)

Unset == [raised |-> "unset"]
Return(v) == [raised |-> "", value |-> v]
Raise(e) == [raised |-> e]
Returned(r) == r.raised = ""

IntLabel(k) == [int |-> k]
StrLabel(s) == [str |-> s]

NaN == -1
NaNText == "NaN"

ID == "Complete TCGA ID"
ER == "ER Status"
STAGE == "AJCC Stage"

Range(s) == {s[i] : i \in 1..Len(s)}

RemoveColumn(cols, c) == SelectSeq(cols, LAMBDA x : x # c)

----------------------------------------------------------------------------
(* load_clinical_data *)

\* df[[...]]: the listed columns, in the listed order; a KeyError when one is absent.
SelectColumns(df, cols) ==
    IF Range(cols) \subseteq Range(df.columns)
    THEN Return([columns |-> cols,
                 rows |-> [i \in 1..Len(df.rows) |->
                     [idx |-> df.rows[i].idx,
                      cells |-> [c \in Range(cols) |-> df.rows[i].cells[c]]]]])
    ELSE Raise("KeyError")

\* DataFrame.dropna(): the rows without a missing cell, labels and order kept
\* (na is the missing value of the table's cells: NaNText or NaN).
dropna(df, na) ==
    [df EXCEPT !.rows = SelectSeq(df.rows,
        LAMBDA r : \A c \in Range(df.columns) : r.cells[c] # na)]

\* df[df["ER Status"].isin(["Negative", "Positive"])]
isin_filter(df) ==
    [df EXCEPT !.rows = SelectSeq(df.rows,
        LAMBDA r : r.cells[ER] \in {"Negative", "Positive"})]

\* A variant of the filters in which the membership mask is computed before
\* the missing-value drop and then applied by position to the shorter table.
ClinicalFilterMisaligned(df) ==
    LET d == dropna(df, NaNText)
        kept == {i \in 1..Len(d.rows) : df.rows[i].cells[ER] \in {"Negative", "Positive"}}
        sel[i \in 0..Len(d.rows)] ==
            IF i = 0 THEN <<>>
            ELSE IF i \in kept THEN Append(sel[i - 1], d.rows[i]) ELSE sel[i - 1]
    IN  [d EXCEPT !.rows = sel[Len(d.rows)]]

\* A variant of the loader that drops incomplete rows before it selects the
\* three columns (a gap in any other column then costs the row).
load_clinical_data_dropna_first(raw) ==
    LET sel == SelectColumns(dropna(raw, NaNText), <<ID, ER, STAGE>>)
    IN  IF Returned(sel) THEN Return(isin_filter(sel.value)) ELSE sel

\* The two filters of lines 42-43, in the order the loader applies them.
ClinicalFilter(df) == isin_filter(dropna(df, NaNText))

load_clinical_data(raw) ==
    LET sel == SelectColumns(raw, <<ID, ER, STAGE>>)
    IN  IF Returned(sel) THEN Return(ClinicalFilter(sel.value)) ELSE sel

----------------------------------------------------------------------------
(* encode_estrogen_receptor *)

\* The distinct values of a column, in sorted order (the text values met
\* here sort as "Negative" < "Positive" < "negative").
SortedCategories(df, col) ==
    SelectSeq(<<"Negative", "Positive", "negative">>,
              LAMBDA v : \E i \in 1..Len(df.rows) : df.rows[i].cells[col] = v)

\* A variant of get_dummies whose indicators are inverted.
get_dummies_inverted(df, col) ==
    LET cats == SortedCategories(df, col)
    IN  [columns |-> cats,
         rows |-> [i \in 1..Len(df.rows) |->
             [idx |-> df.rows[i].idx,
              cells |-> [c \in Range(cats) |->
                  IF df.rows[i].cells[col] = c THEN 0 ELSE 1]]]]

\* pd.get_dummies(series): one indicator column per value present.
get_dummies(df, col) ==
    LET cats == SortedCategories(df, col)
    IN  [columns |-> cats,
         rows |-> [i \in 1..Len(df.rows) |->
             [idx |-> df.rows[i].idx,
              cells |-> [c \in Range(cats) |->
                  IF df.rows[i].cells[col] = c THEN 1 ELSE 0]]]]

\* pd.concat((a, b), axis=1) of two tables with the same index.
concat_columns(a, b) ==
    [columns |-> a.columns \o b.columns,
     rows |-> [i \in 1..Len(a.rows) |->
         [idx |-> a.rows[i].idx,
          cells |-> [c \in Range(a.columns) \cup Range(b.columns) |->
              IF c \in Range(a.columns) THEN a.rows[i].cells[c]
              ELSE b.rows[i].cells[c]]]]]

\* df.drop([c], axis=1): a KeyError when the column is absent.
drop_column(df, col) ==
    IF col \in Range(df.columns)
    THEN Return([columns |-> RemoveColumn(df.columns, col),
                 rows |-> [i \in 1..Len(df.rows) |->
                     [idx |-> df.rows[i].idx,
                      cells |-> [c \in Range(df.columns) \ {col} |->
                          df.rows[i].cells[c]]]]])
    ELSE Raise("KeyError")

\* df.rename(columns={old: new}): nothing happens when old is absent.
rename_column(df, old, new) ==
    LET name(c) == IF c = old THEN new ELSE c
        back(c) == IF c = new THEN old ELSE c
    IN  IF old \notin Range(df.columns) THEN df
        ELSE [columns |-> [i \in 1..Len(df.columns) |-> name(df.columns[i])],
              rows |-> [i \in 1..Len(df.rows) |->
                  [idx |-> df.rows[i].idx,
                   cells |-> [c \in {name(x) : x \in Range(df.columns)} |->
                       df.rows[i].cells[back(c)]]]]]

encode_estrogen_receptor(clinical_data) ==
    LET dummy_data == get_dummies(clinical_data, ER)
        both == concat_columns(dummy_data, clinical_data)
        noStatus == drop_column(both, ER)
        noPositive == IF Returned(noStatus)
                      THEN drop_column(noStatus.value, "Positive") ELSE noStatus
    IN  IF Returned(noPositive)
        THEN SelectColumns(rename_column(noPositive.value, "Negative", ER),
                           <<ID, ER, STAGE>>)
        ELSE noPositive

----------------------------------------------------------------------------
(* load_gene_expression_data *)

\* The row carrying a given text label (labels are unique where this is used).
RowOf(df, label) ==
    df.rows[CHOOSE i \in 1..Len(df.rows) : df.rows[i].idx = StrLabel(label)]

\* DataFrame.T: the columns become the rows and the row labels the columns.
transpose(df) ==
    [columns |-> [i \in 1..Len(df.rows) |-> df.rows[i].idx.str],
     rows |-> [j \in 1..Len(df.columns) |->
         [idx |-> StrLabel(df.columns[j]),
          cells |-> [g \in {df.rows[i].idx.str : i \in 1..Len(df.rows)} |->
              RowOf(df, g).cells[df.columns[j]]]]]]

\* DataFrame.reset_index(): the unnamed index becomes the first column,
\* called "index", and the rows are numbered from 0.
reset_index(df) ==
    [columns |-> <<"index">> \o df.columns,
     rows |-> [i \in 1..Len(df.rows) |->
         [idx |-> IntLabel(i - 1),
          cells |-> [c \in {"index"} \cup Range(df.columns) |->
              IF c = "index" THEN df.rows[i].idx.str ELSE df.rows[i].cells[c]]]]]

\* A variant of the loader that drops incomplete rows after the transposition,
\* which removes samples instead of genes.
load_gene_expression_data_dropna_after_T(raw) ==
    rename_column(reset_index(dropna(transpose(raw), NaN)), "index", "NAME")

\* rename_axis(None, axis=1) only clears the name of the column axis.
load_gene_expression_data(raw) ==
    rename_column(reset_index(transpose(dropna(raw, NaN))), "index", "NAME")

----------------------------------------------------------------------------
(* The inputs explored. *)

Injective(s) == \A i, j \in 1..Len(s) : s[i] = s[j] => i = j

\* A table of the given columns whose rows hold the given cells and are
\* labelled by position, counting from first.
Table(columns, cellRows, first) ==
    [columns |-> columns,
     rows |-> [i \in 1..Len(cellRows) |->
         [idx |-> IntLabel(first + i - 1), cells |-> cellRows[i]]]]

\* Rows of the spreadsheet: the three columns read, and one that is not.
RawClinicalCells ==
    {(ID :> i) @@ (ER :> e) @@ (STAGE :> s) @@ ("Gender" :> g) :
        i \in {"a", "b", NaNText},
        e \in {"Negative", "Positive", "negative", NaNText},
        s \in {"I", NaNText},
        g \in {"F", NaNText}}

\* Gene-by-sample matrices: the sample names are the columns (read_csv keeps
\* them distinct), the gene identifiers label the rows.
SampleOrder == <<"a-x", "b-x", "a-y", "x">>
GeneOrder == <<"g1", "g2", "g3", "g4">>

Matrix(samples, cellRows) ==
    [columns |-> samples,
     rows |-> [i \in 1..Len(cellRows) |->
         [idx |-> StrLabel(GeneOrder[i]), cells |-> cellRows[i]]]]

\* Tables as the loaders return them, for the sample matcher: distinct
\* sample names and no missing value; clinical identifiers that may repeat.
ClinicalIds == {"a", "b", "ab"}
ExpressionNames == {"a", "a-x", "a-y", "b-x", "ab-x", "x"}

LoadedExpressionCells ==
    {("NAME" :> n) @@ ("g1" :> v) : n \in ExpressionNames, v \in {1, 2}}

LoadedClinicalCells ==
    {(ID :> i) @@ (ER :> e) @@ (STAGE :> "I") :
        i \in ClinicalIds, e \in {"Negative", "Positive"}}

----------------------------------------------------------------------------
(* create_data_structures_with_matching_sample *)

\* The characters of the identifiers explored.
Chars(s) ==
    CASE s = "a" -> <<"a">>
      [] s = "b" -> <<"b">>
      [] s = "ab" -> <<"a", "b">>
      [] s = "x" -> <<"x">>
      [] s = "a-x" -> <<"a", "-", "x">>
      [] s = "a-y" -> <<"a", "-", "y">>
      [] s = "b-x" -> <<"b", "-", "x">>
      [] s = "ab-x" -> <<"a", "b", "-", "x">>

\* Series.str.contains(id): id occurs in name (the identifiers explored hold
\* no character that the pattern syntax reads specially).
Contains(name, id) ==
    LET n == Chars(name)
        p == Chars(id)
    IN  \E k \in 0..(Len(n) - Len(p)) : SubSeq(n, k + 1, k + Len(p)) = p

Column(df, col) == [i \in 1..Len(df.rows) |-> df.rows[i].cells[col]]

\* A variant of the assignment that ignores the mask and writes every row.
Overwrite_every_row(df, id) ==
    [df EXCEPT !.rows = [i \in 1..Len(df.rows) |->
        [df.rows[i] EXCEPT !.cells["NAME"] = id]]]

\* genes_expression.loc[genes_expression["NAME"].str.contains(id), "NAME"] = id
Overwrite(df, id) ==
    [df EXCEPT !.rows = [i \in 1..Len(df.rows) |->
        IF Contains(df.rows[i].cells["NAME"], id)
        THEN [df.rows[i] EXCEPT !.cells["NAME"] = id]
        ELSE df.rows[i]]]

\* The loop over sample_ID, in the order of the clinical rows.
RECURSIVE Normalize(_, _)
Normalize(df, sample_ID) ==
    IF sample_ID = <<>> THEN df
    ELSE Normalize(Overwrite(df, Head(sample_ID)), Tail(sample_ID))

\* A variant of the clinical filter that keeps every row.
KeepAll(clinical, TCGA_ID) == clinical

\* estrogen_receptor.loc[estrogen_receptor["Complete TCGA ID"].isin(TCGA_ID)]
KeepMatched(clinical, TCGA_ID) ==
    [clinical EXCEPT !.rows = SelectSeq(clinical.rows,
        LAMBDA r : r.cells[ID] \in Range(TCGA_ID))]

\* DataFrame.set_index(col): the column becomes the index and leaves the columns.
set_index(df, col) ==
    [columns |-> RemoveColumn(df.columns, col),
     rows |-> [i \in 1..Len(df.rows) |->
         [idx |-> StrLabel(df.rows[i].cells[col]),
          cells |-> [c \in Range(df.columns) \ {col} |-> df.rows[i].cells[c]]]]]

Index(df) == [i \in 1..Len(df.rows) |-> df.rows[i].idx]

\* A variant of reindex that leaves the rows as they are.
reindex_skipped(df, target) == Return(df)

\* A variant of reindex that tolerates repeated labels and takes, for each
\* target label, the last row carrying it.
reindex_last_wins(df, target) ==
    LET last(t) == CHOOSE i \in 1..Len(df.rows) :
                       /\ df.rows[i].idx = StrLabel(t)
                       /\ \A j \in (i + 1)..Len(df.rows) : df.rows[j].idx # StrLabel(t)
    IN  Return([columns |-> df.columns,
                rows |-> [i \in 1..Len(target) |->
                    [idx |-> StrLabel(target[i]),
                     cells |-> IF StrLabel(target[i]) \in Range(Index(df))
                               THEN df.rows[last(target[i])].cells
                               ELSE [c \in Range(df.columns) |-> NaN]]]])

\* DataFrame.reindex(index=target): a table equal to the target is copied;
\* otherwise an index with repeated labels raises, and a label the index
\* lacks gives a row of missing values.
reindex(df, target) ==
    LET labels == [i \in 1..Len(target) |-> StrLabel(target[i])]
        missing == [c \in Range(df.columns) |-> NaN]
    IN  IF Index(df) = labels THEN Return(df)
        ELSE IF ~Injective(Index(df)) THEN Raise("ValueError")
        ELSE Return([columns |-> df.columns,
                     rows |-> [i \in 1..Len(target) |->
                         [idx |-> labels[i],
                          cells |-> IF labels[i] \in Range(Index(df))
                                    THEN RowOf(df, target[i]).cells
                                    ELSE missing]]])

\* The expression table after lines 97-99: the caller's own table, since
\* .loc assignment writes into the object that was passed.
NormalizedExpression(ge, er) == Normalize(ge, Column(er, ID))

create_data_structures_with_matching_sample(ge, er) ==
    LET normalized == NormalizedExpression(ge, er)
        kept == KeepMatched(er, Column(normalized, "NAME"))
        reordered == reindex(set_index(normalized, "NAME"), Column(kept, ID))
    IN  IF Returned(reordered)
        THEN Return([genes_expression |-> reordered.value,
                     estrogen_receptor |-> kept])
        ELSE reordered

----------------------------------------------------------------------------
(* get_std *)

RECURSIVE Sum(_)
Sum(s) == IF s = <<>> THEN 0 ELSE Head(s) + Sum(Tail(s))

\* Series.std(): missing values are skipped; with n values left the variance
\* is (n * sum(x^2) - sum(x)^2) / (n * (n - 1)), kept here as numerator and
\* denominator (the standard deviation is its square root), and is missing
\* when n < 2.
column_std(values) ==
    LET xs == SelectSeq(values, LAMBDA v : v # NaN)
        n == Len(xs)
    IN  IF n < 2 THEN [n |-> n, var_num |-> NaN, var_den |-> NaN]
        ELSE [n |-> n,
              var_num |-> n * Sum([i \in 1..n |-> xs[i] * xs[i]]) - Sum(xs) * Sum(xs),
              var_den |-> n * (n - 1)]

get_std(df) == [c \in Range(df.columns) |-> column_std(Column(df, c))]

----------------------------------------------------------------------------
(* The calling script: the expression loader. *)

InitExpression ==
    /\ pc = "start"
    /\ \E s \in 0..MaxSamples, g \in 0..MaxGenes :
           \E m \in [1..g -> [Range(SubSeq(SampleOrder, 1, s)) -> {1, 2, NaN}]] :
               raw_expression = Matrix(SubSeq(SampleOrder, 1, s), m)
    /\ raw_clinical = Unset
    /\ genes_expression = Unset
    /\ estrogen_receptor = Unset
    /\ refiltered = Unset
    /\ encoded = Unset
    /\ matched = Unset
    /\ std = Unset
    /\ passed = Unset

LoadGeneExpression ==
    /\ pc = "start"
    /\ raw_expression # Unset
    /\ genes_expression' = load_gene_expression_data(raw_expression)
    /\ pc' = "expression_loaded"
    /\ UNCHANGED <<raw_expression, raw_clinical, estrogen_receptor, refiltered,
                   encoded, matched, std, passed>>

NextExpression == LoadGeneExpression

SpecExpression == InitExpression /\ [][NextExpression]_vars

----------------------------------------------------------------------------
(* The calling script: the clinical loader and the encoder. *)

InitClinical ==
    /\ pc = "start"
    /\ \E n \in 0..MaxClinicalRows :
           \E r \in [1..n -> RawClinicalCells] :
               raw_clinical = Table(<<ID, "Gender", ER, STAGE>>, r, 0)
    /\ raw_expression = Unset
    /\ genes_expression = Unset
    /\ estrogen_receptor = Unset
    /\ refiltered = Unset
    /\ encoded = Unset
    /\ matched = Unset
    /\ std = Unset
    /\ passed = Unset

\* The loader raises only when a column it reads is absent.
LoadClinical ==
    /\ pc = "start"
    /\ raw_clinical # Unset
    /\ LET loaded == load_clinical_data(raw_clinical)
       IN  IF Returned(loaded)
           THEN estrogen_receptor' = loaded.value /\ pc' = "clinical_loaded"
           ELSE estrogen_receptor' = loaded /\ pc' = "clinical_failed"
    /\ UNCHANGED <<raw_expression, raw_clinical, genes_expression, refiltered,
                   encoded, matched, std, passed>>

\* The loader's filters applied to the table the loader returned.
Refilter ==
    /\ pc = "clinical_loaded"
    /\ refiltered = Unset
    /\ refiltered' = Return(ClinicalFilter(estrogen_receptor))
    /\ UNCHANGED <<pc, raw_expression, raw_clinical, genes_expression,
                   estrogen_receptor, encoded, matched, std, passed>>

\* encode_estrogen_receptor builds new tables only: the caller's is left alone.
Encode ==
    /\ pc = "clinical_loaded"
    /\ encoded = Unset
    /\ passed' = [clinical_data |-> estrogen_receptor]
    /\ encoded' = encode_estrogen_receptor(estrogen_receptor)
    /\ UNCHANGED <<pc, raw_expression, raw_clinical, genes_expression,
                   estrogen_receptor, refiltered, matched, std>>

NextClinical == LoadClinical \/ Refilter \/ Encode

SpecClinical == InitClinical /\ [][NextClinical]_vars

----------------------------------------------------------------------------
(* The calling script: the sample matcher and the standard deviations. *)

InitMatch ==
    /\ pc = "loaded"
    /\ \E n \in 0..MaxSamples :
           \E q \in [1..n -> LoadedExpressionCells] :
               /\ Injective([i \in 1..n |-> q[i]["NAME"]])
               /\ genes_expression = Table(<<"NAME", "g1">>, q, 0)
    /\ \E n \in 0..MaxMatchRows :
           \E r \in [1..n -> LoadedClinicalCells] :
               estrogen_receptor = Table(<<ID, ER, STAGE>>, r, 1)
    /\ raw_expression = Unset
    /\ raw_clinical = Unset
    /\ refiltered = Unset
    /\ encoded = Unset
    /\ matched = Unset
    /\ std = Unset
    /\ passed = Unset

\* The loop of lines 98-99 writes into the caller's expression table, also
\* when reindex raises afterwards; the clinical table is only rebound locally.
Match ==
    /\ pc = "loaded"
    /\ passed' = [genes_expression |-> genes_expression,
                  estrogen_receptor |-> estrogen_receptor]
    /\ matched' = create_data_structures_with_matching_sample(
                      genes_expression, estrogen_receptor)
    /\ genes_expression' = NormalizedExpression(genes_expression, estrogen_receptor)
    /\ pc' = "matched"
    /\ UNCHANGED <<raw_expression, raw_clinical, estrogen_receptor, refiltered,
                   encoded, std>>

GetStd ==
    /\ pc = "matched"
    /\ Returned(matched)
    /\ passed' = [genes_expression |-> matched.value.genes_expression]
    /\ std' = Return(get_std(matched.value.genes_expression))
    /\ pc' = "done"
    /\ UNCHANGED <<raw_expression, raw_clinical, genes_expression,
                   estrogen_receptor, refiltered, encoded, matched>>

NextMatch == Match \/ GetStd

SpecMatch == InitMatch /\ [][NextMatch]_vars

----------------------------------------------------------------------------
(* The calling script, whichever of the three parts it runs. *)

Init == InitExpression \/ InitClinical \/ InitMatch

Next == NextExpression \/ NextClinical \/ NextMatch

Spec == Init /\ [][Next]_vars

----------------------------------------------------------------------------
(* Properties of the clinical loader and of the encoder (SpecClinical). *)

AfterLoadClinical == pc = "clinical_loaded"
AfterEncode == encoded # Unset

\* A row of the spreadsheet is complete and labelled when none of the three
\* cells read is missing and its status is one of the two labels, as written.
Retained(r) ==
    /\ r.cells[ID] # NaNText
    /\ r.cells[ER] # NaNText
    /\ r.cells[STAGE] # NaNText
    /\ r.cells[ER] = "Negative" \/ r.cells[ER] = "Positive"

\* C3: where encode_estrogen_receptor returns, the output row at each
\* position has ER Status 1 exactly when the input row was "Negative" and 0
\* exactly when it was "Positive", and keeps the input row's sample ID,
\* stage and label; the number and order of the rows are unchanged.
C3_EncodingCorrect ==
    (AfterEncode /\ Returned(encoded)) =>
        LET in == passed.clinical_data.rows
            out == encoded.value.rows
        IN  /\ Len(out) = Len(in)
            /\ \A i \in 1..Len(in) :
                /\ out[i].cells[ER] = 1 <=> in[i].cells[ER] = "Negative"
                /\ out[i].cells[ER] = 0 <=> in[i].cells[ER] = "Positive"
                /\ out[i].cells[ID] = in[i].cells[ID]
                /\ out[i].cells[STAGE] = in[i].cells[STAGE]
                /\ out[i].idx = in[i].idx

\* The encoder returned for a table that holds a Negative row after a Positive one.
C3_Witness ==
    /\ AfterEncode
    /\ Returned(encoded)
    /\ Len(encoded.value.rows) = 2
    /\ passed.clinical_data.rows[1].cells[ER] = "Positive"
    /\ passed.clinical_data.rows[2].cells[ER] = "Negative"

\* C4: for every table load_clinical_data returns, the encoder returns a
\* table with exactly the columns sample ID, ER Status, stage.
C4_EncoderAlwaysReturns ==
    AfterEncode =>
        /\ Returned(encoded)
        /\ encoded.value.columns = <<ID, ER, STAGE>>

\* C5: the loaded table holds exactly the rows of the spreadsheet that are
\* complete in the three columns read and labelled "Negative" or "Positive",
\* in the spreadsheet's order, with the three cells as read; the loader
\* raises for none of the spreadsheets.
C5_LoaderKeepsExactlyValidRows ==
    /\ pc # "clinical_failed"
    /\ AfterLoadClinical =>
        LET want == SelectSeq(raw_clinical.rows, Retained)
            got == estrogen_receptor.rows
        IN  /\ estrogen_receptor.columns = <<ID, ER, STAGE>>
            /\ Len(got) = Len(want)
            /\ \A i \in 1..Len(want) :
                /\ got[i].idx = want[i].idx
                /\ \A c \in {ID, ER, STAGE} : got[i].cells[c] = want[i].cells[c]

\* The loader kept a row whose unread column is missing and dropped a row
\* whose status is the label in another case.
C5_Witness ==
    /\ AfterLoadClinical
    /\ Len(raw_clinical.rows) = 2
    /\ raw_clinical.rows[1].cells[ER] = "negative"
    /\ raw_clinical.rows[1].cells[ID] # NaNText
    /\ raw_clinical.rows[1].cells[STAGE] # NaNText
    /\ raw_clinical.rows[2].cells["Gender"] = NaNText
    /\ Len(estrogen_receptor.rows) = 1
    /\ estrogen_receptor.rows[1].idx = IntLabel(1)

\* C6: filtering the loaded table once more gives the loaded table.
C6_FilterIdempotent ==
    (refiltered # Unset) =>
        /\ Returned(refiltered)
        /\ refiltered.value = estrogen_receptor

\* The filters were applied again to a loaded table that had lost a row.
C6_Witness ==
    /\ refiltered # Unset
    /\ Len(estrogen_receptor.rows) = 1
    /\ Len(raw_clinical.rows) = 2

----------------------------------------------------------------------------
(* Properties of the expression loader (SpecExpression). *)

AfterLoadExpression == pc = "expression_loaded"

CompleteGenes(raw) ==
    SelectSeq(raw.rows, LAMBDA g : \A c \in Range(raw.columns) : g.cells[c] # NaN)

\* C7: the loaded expression table has one row per sample of the matrix,
\* named in column NAME in the matrix's order, and one column per gene
\* without a missing value, in the matrix's order; a gene with a missing
\* value is no column, and no gene cell of the table is missing.
C7_ExpressionLoaderComplete ==
    AfterLoadExpression =>
        LET complete == CompleteGenes(raw_expression)
        IN  /\ Column(genes_expression, "NAME") = raw_expression.columns
            /\ genes_expression.columns =
                   <<"NAME">> \o [i \in 1..Len(complete) |-> complete[i].idx.str]
            /\ \A i \in 1..Len(raw_expression.rows) :
                   (\E c \in Range(raw_expression.columns) :
                        raw_expression.rows[i].cells[c] = NaN)
                   => raw_expression.rows[i].idx.str \notin Range(genes_expression.columns)
            /\ \A i \in 1..Len(genes_expression.rows) :
                   \A c \in Range(genes_expression.columns) \ {"NAME"} :
                       genes_expression.rows[i].cells[c] # NaN

\* A matrix of two samples was loaded whose first gene misses a value in one
\* sample only and whose second gene is complete.
C7_Witness ==
    /\ AfterLoadExpression
    /\ Len(raw_expression.columns) = 2
    /\ Len(raw_expression.rows) = 2
    /\ raw_expression.rows[1].cells["a-x"] = NaN
    /\ raw_expression.rows[1].cells["b-x"] # NaN
    /\ genes_expression.columns = <<"NAME", "g2">>
    /\ Len(genes_expression.rows) = 2

----------------------------------------------------------------------------
(* Properties of the sample matcher (SpecMatch). *)

AfterMatch == pc = "matched"
MatchedExpression == matched.value.genes_expression
MatchedClinical == matched.value.estrogen_receptor
Labels(ids) == [i \in 1..Len(ids) |-> StrLabel(ids[i])]
GeneCells(r) == [c \in DOMAIN r.cells \ {"NAME"} |-> r.cells[c]]

\* C1: where the matcher returns, the index of the returned expression table
\* is the sample ID column of the returned clinical table: same length, same
\* values, same order.
C1_IndexEqualsClinicalIds ==
    (AfterMatch /\ Returned(matched)) =>
        Index(MatchedExpression) = Labels(Column(MatchedClinical, ID))

\* The matcher returned two rows and had to put the expression rows in
\* another order than they were passed in.
C1_Witness ==
    /\ AfterMatch
    /\ Returned(matched)
    /\ Len(MatchedExpression.rows) = 2
    /\ Len(passed.genes_expression.rows) = 2
    /\ MatchedExpression.rows[1].idx # MatchedExpression.rows[2].idx
    /\ Index(MatchedExpression) # Labels(Column(genes_expression, "NAME"))

\* C2: where the matcher returns, the clinical rows returned are exactly the
\* rows passed whose ID is a NAME of the normalized expression table, in the
\* order passed; and every expression row returned carries the gene values of
\* a row passed whose NAME contained the row's ID, none of them missing.
C2_RestrictedToCommonSamples ==
    (AfterMatch /\ Returned(matched)) =>
        /\ MatchedClinical.rows =
               SelectSeq(passed.estrogen_receptor.rows,
                   LAMBDA r : \E i \in 1..Len(genes_expression.rows) :
                       genes_expression.rows[i].cells["NAME"] = r.cells[ID])
        /\ \A k \in 1..Len(MatchedExpression.rows) :
               /\ \A c \in Range(MatchedExpression.columns) :
                      MatchedExpression.rows[k].cells[c] # NaN
               /\ \E i \in 1..Len(passed.genes_expression.rows) :
                      /\ Contains(passed.genes_expression.rows[i].cells["NAME"],
                                  MatchedExpression.rows[k].idx.str)
                      /\ GeneCells(passed.genes_expression.rows[i]) =
                             MatchedExpression.rows[k].cells

\* The matcher returned a pair from which it had dropped a clinical row
\* and an expression row.
C2_Witness ==
    /\ AfterMatch
    /\ Returned(matched)
    /\ Len(passed.estrogen_receptor.rows) = 2
    /\ Len(passed.genes_expression.rows) = 2
    /\ Len(MatchedClinical.rows) = 1
    /\ Len(MatchedExpression.rows) = 1
    /\ MatchedClinical.rows[1].idx = IntLabel(2)

\* C8: the clinical table returned by the matcher is indexed by the matched
\* sample IDs, as the expression table returned with it.
C8_ClinicalIndexedBySampleId ==
    (AfterMatch /\ Returned(matched)) =>
        /\ Index(MatchedClinical) = Labels(Column(MatchedClinical, ID))
        /\ Index(MatchedClinical) = Index(MatchedExpression)

\* Several rows passed hold this clinical ID in their NAME.
Ambiguous(id) ==
    Cardinality({i \in 1..Len(passed.genes_expression.rows) :
        Contains(passed.genes_expression.rows[i].cells["NAME"], id)}) > 1

LastMatching(id) ==
    LET rows == passed.genes_expression.rows
    IN  rows[CHOOSE i \in 1..Len(rows) :
            /\ Contains(rows[i].cells["NAME"], id)
            /\ \A j \in (i + 1)..Len(rows) : ~Contains(rows[j].cells["NAME"], id)]

\* C9 as claimed: when several expression rows hold the same clinical ID in
\* their NAME, the matcher still returns, and the row returned under that ID
\* carries the gene values of the last of them.
C9_LastMatchWins ==
    AfterMatch =>
        \A id \in Range(Column(passed.estrogen_receptor, ID)) :
            Ambiguous(id) =>
                /\ Returned(matched)
                /\ \A k \in 1..Len(MatchedExpression.rows) :
                       MatchedExpression.rows[k].idx = StrLabel(id)
                       => MatchedExpression.rows[k].cells = GeneCells(LastMatching(id))

\* C9 as the code has it: when the loop leaves several expression rows with
\* the same NAME, no row wins.  The matcher raises ValueError, except when
\* the normalized NAME column equals the ID column of the clinical rows kept,
\* and then it returns every expression row, in the order passed, each with
\* its own gene values.
C9_DuplicateNamesRaise ==
    (AfterMatch /\ ~Injective(Column(genes_expression, "NAME"))) =>
        LET names == Column(genes_expression, "NAME")
            ids == SelectSeq(Column(passed.estrogen_receptor, ID),
                             LAMBDA x : x \in Range(names))
        IN  IF names = ids
            THEN /\ Returned(matched)
                 /\ Index(MatchedExpression) = Labels(names)
                 /\ \A i \in 1..Len(names) :
                        MatchedExpression.rows[i].cells =
                            GeneCells(passed.genes_expression.rows[i])
            ELSE matched = Raise("ValueError")

\* Two expression rows held the one clinical ID in their NAME, and the
\* matcher raised.
C9_Witness ==
    /\ AfterMatch
    /\ Len(passed.estrogen_receptor.rows) = 1
    /\ Ambiguous(passed.estrogen_receptor.rows[1].cells[ID])
    /\ ~Injective(Column(genes_expression, "NAME"))
    /\ matched = Raise("ValueError")

----------------------------------------------------------------------------
(* Effects on the arguments (Spec). *)

AfterGetStd == pc = "done"

\* C10 as claimed: after the encoder, the matcher or get_std has been
\* called, the tables the caller passed are as they were.
C10_NoArgumentMutated ==
    /\ AfterEncode => estrogen_receptor = passed.clinical_data
    /\ AfterMatch =>
           /\ genes_expression = passed.genes_expression
           /\ estrogen_receptor = passed.estrogen_receptor
    /\ AfterGetStd => MatchedExpression = passed.genes_expression

\* C10 as the code has it: the encoder and get_std leave their argument as
\* it was, and so does the matcher with the clinical table; of the
\* expression table it was passed the matcher rewrites column NAME alone: a
\* NAME that holds a clinical ID becomes a clinical ID that it holds, any
\* other NAME stays, and the rows keep their number, order, labels and gene
\* values.
C10_MatcherRewritesNamesOnly ==
    /\ AfterEncode => estrogen_receptor = passed.clinical_data
    /\ AfterGetStd => MatchedExpression = passed.genes_expression
    /\ AfterMatch =>
           LET before == passed.genes_expression
               ids == Range(Column(passed.estrogen_receptor, ID))
           IN  /\ estrogen_receptor = passed.estrogen_receptor
               /\ genes_expression.columns = before.columns
               /\ Len(genes_expression.rows) = Len(before.rows)
               /\ \A i \in 1..Len(before.rows) :
                   LET old == before.rows[i].cells["NAME"]
                       new == genes_expression.rows[i].cells["NAME"]
                   IN  /\ genes_expression.rows[i].idx = before.rows[i].idx
                       /\ GeneCells(genes_expression.rows[i]) = GeneCells(before.rows[i])
                       /\ IF \E id \in ids : Contains(old, id)
                          THEN new \in ids /\ Contains(old, new)
                          ELSE new = old

\* The matcher returned, and the caller's expression table is no longer the
\* table that was passed.
C10_Witness ==
    /\ AfterMatch
    /\ Returned(matched)
    /\ Len(passed.genes_expression.rows) = 2
    /\ genes_expression.rows[1].cells["NAME"] # passed.genes_expression.rows[1].cells["NAME"]
    /\ genes_expression.rows[2].cells["NAME"] = passed.genes_expression.rows[2].cells["NAME"]

====
